---- MODULE Spec2Model ----
(***************************************************************************)
(* Model of bin/fus.py: the access engine (has_access), the path resolver  *)
(* (normalize_path), the credential check (get_user and                    *)
(* MyAuthorizer.validate_authentication), the range streamer (streamfile)  *)
(* and the mutating operations of the HTTP and FTP adapters.               *)
(*                                                                         *)
(* Python strings are sequences of one-character strings, so that the      *)
(* string operations of the code (split, strip, startswith, join,          *)
(* normpath, the Range regular expression, int() and format) are computed  *)
(* character by character.                                                 *)
(***************************************************************************)
EXTENDS Integers, Sequences, FiniteSets, TLC

VARIABLES
    all_dirs,       \* config.all_dirs: the registered directory names
    user_perms,     \* config.user_perms: user -> creds and per-action dir list
    ha_pc,          \* position of the has_access call: idle, loop, ret
    ha_user,        \* has_access argument user
    ha_action,      \* has_access argument action
    ha_arg,         \* has_access argument dirname as passed
    ha_dirname,     \* local dirname of the while loop
    ha_iter,        \* completed iterations of the while loop
    ha_result,      \* outcome: none, true, false, AccessError
    basedir,        \* config.get("global", "basedir"), made absolute at load
    fs,             \* the filesystem: absolute path -> object
    np_pc,          \* position of the normalize_path call: idle, ret
    np_path,        \* normalize_path argument path
    np_result,      \* the returned triple, or the AccessError raised
    au_pc,          \* position of the credential check: idle, ret
    au_op,          \* which check ran: get_user or validate_authentication
    au_req,         \* the credentials the request in hand carries
    au_user,        \* the user name the stored creds were looked up for
    au_password,    \* the supplied secret compared with them
    au_result,      \* what the check returned or raised
    hs_pc,          \* the server: idle, ret (a request has been answered)
    hs_proto,       \* the adapter the request came through: http, ftp
    hs_req,         \* the request
    hs_resp,        \* the response, or what the FTP method returned/raised
    hs_effect,      \* the filesystem effect the request performed
    hs_fs0,         \* the filesystem when the request arrived
    hs_ops,         \* requests so far that changed the filesystem
    rc_pc,          \* concurrent uploads: where each one stands
    rc_name,        \* the file name each one uploads
    rc_resp,        \* what each one answered
    rc_hub,         \* the HTTP handler the gevent hub is running, or free
    rc_log,         \* the steps taken so far, in order
    chunksize,      \* config.getint("global", "chunksize")
    sf_pc,          \* streamfile: idle, resp (generator not started),
                    \* streaming (suspended at yield), done
    sf_size,        \* size of the file served
    sf_header,      \* the request's Range header, or None
    sf_resp,        \* what streamfile returned or raised
    sf_start,       \* send_chunks_iter argument start
    sf_length,      \* send_chunks_iter argument length
    sf_offset,      \* send_chunks_iter local offset
    sf_handle,      \* the file object f: none, open, closed
    sf_body,        \* the bytes yielded so far
    sf_end          \* how the stream ended: exhausted, closed, error

haFrame == <<ha_pc, ha_user, ha_action, ha_arg, ha_dirname, ha_iter,
             ha_result>>

haVars == <<all_dirs, user_perms, ha_pc, ha_user, ha_action, ha_arg,
            ha_dirname, ha_iter, ha_result>>

npVars == <<basedir, fs, np_pc, np_path, np_result>>

auVars == <<au_pc, au_op, au_req, au_user, au_password, au_result>>

sfVars == <<chunksize, sf_pc, sf_size, sf_header, sf_resp, sf_start,
            sf_length, sf_offset, sf_handle, sf_body, sf_end>>

hsVars == <<hs_pc, hs_proto, hs_req, hs_resp, hs_effect, hs_fs0, hs_ops>>

rcVars == <<rc_pc, rc_name, rc_resp, rc_hub, rc_log>>

vars == <<haVars, npVars, auVars, sfVars, hsVars, rcVars>>

(***************************************************************************)
(* Strings                                                                 *)
(***************************************************************************)
Sep == "/"

\* The text "forbidden" etc. are kept as TLA+ strings where the code never
\* takes them apart; paths, headers and numbers are character sequences.

RECURSIVE lstrip(_)
lstrip(s) == IF s # <<>> /\ Head(s) = Sep THEN lstrip(Tail(s)) ELSE s

RECURSIVE rstrip(_)
rstrip(s) ==
    IF s # <<>> /\ s[Len(s)] = Sep THEN rstrip(SubSeq(s, 1, Len(s) - 1)) ELSE s

strip(s) == lstrip(rstrip(s))

startswith(s, p) == Len(p) <= Len(s) /\ SubSeq(s, 1, Len(p)) = p

endswith(s, p) ==
    Len(p) <= Len(s) /\ SubSeq(s, Len(s) - Len(p) + 1, Len(s)) = p

\* str.rfind(sep) + 1: the index just after the last separator, 0 if none
RECURSIVE rfind1(_, _)
rfind1(s, i) == IF i = 0 \/ s[i] = Sep THEN i ELSE rfind1(s, i - 1)

AllSep(s) == \A i \in 1..Len(s) : s[i] = Sep

\* posixpath.split
os_path_split(p) ==
    LET i == rfind1(p, Len(p))
        head == SubSeq(p, 1, i)
        tail == SubSeq(p, i + 1, Len(p))
    IN  <<IF head # <<>> /\ ~AllSep(head) THEN rstrip(head) ELSE head, tail>>

\* posixpath.join(a, b)
os_path_join(a, b) ==
    IF startswith(b, <<Sep>>) THEN b
    ELSE IF a = <<>> \/ endswith(a, <<Sep>>) THEN a \o b
    ELSE a \o <<Sep>> \o b

\* str.split(sep): the components between separators, empty ones included
RECURSIVE str_split(_)
str_split(s) ==
    LET n == CHOOSE k \in 0..Len(s) :
                 /\ \A j \in 1..k : s[j] # Sep
                 /\ (k = Len(s) \/ s[k + 1] = Sep)
    IN  IF n = Len(s) THEN <<s>>
        ELSE <<SubSeq(s, 1, n)>> \o str_split(SubSeq(s, n + 2, Len(s)))

\* sep.join(comps)
RECURSIVE str_join(_)
str_join(comps) ==
    IF comps = <<>> THEN <<>>
    ELSE IF Len(comps) = 1 THEN comps[1]
    ELSE comps[1] \o <<Sep>> \o str_join(Tail(comps))

(***************************************************************************)
(* Policy (compute_permissions)                                            *)
(***************************************************************************)
UNAUTH == <<"a", "n", "o", "n", "y", "m", "o", "u", "s">>
Alice == <<"a", "l", "i", "c", "e">>
Mallory == <<"m", "a", "l">>

Access == {"list", "read", "delete", "write", "mkdir"}

\* Principals of the policy: the reserved one and one configured user
Users == {UNAUTH, Alice}

\* Python's None where a string is expected: a sequence no string equals
None == <<"None">>

\* dict.get(key, None) is None
get_is_None(d, k) == k \notin DOMAIN d

\* longest directory argument, in path segments
MaxDepth == 2

SegNames == {<<"a">>, <<"b">>}

RECURSIVE SegSeqs(_)
SegSeqs(n) ==
    IF n = 0 THEN {<<>>}
    ELSE SegSeqs(n - 1) \cup
         {Append(q, x) : q \in {r \in SegSeqs(n - 1) : Len(r) = n - 1},
                         x \in SegNames}

\* the normalized relative directory paths of at most n segments
NormDirs(n) == {str_join(q) : q \in SegSeqs(n)}

\* directories a configuration may register (sections "dir:<name>")
RegCandidates == {<<>>, <<"a">>, <<"a", "/", "b">>}

\* init_actions + the grant loop of compute_permissions: every user has an
\* entry for every member of Access, holding registered directories only
mk_perms(creds, g) == [creds |-> creds, acts |-> g]

Policies ==
    {[dirs |-> D,
      perms |-> [u \in Users |->
                  IF u = UNAUTH
                  THEN mk_perms(None, [a \in Access |->
                                         IF a = "list" THEN g2 ELSE {}])
                  ELSE mk_perms(<<"p", "w">>,
                                [a \in Access |->
                                   CASE a = "list" -> g1
                                     [] a = "read" -> g2
                                     [] a = "delete" -> g1 \cap g2
                                     [] a = "write" -> g1 \cup g2
                                     [] OTHER -> D \ g1])]] :
        <<D, g1, g2>> \in {t \in (SUBSET RegCandidates) \X (SUBSET RegCandidates)
                                  \X (SUBSET RegCandidates) :
                              t[2] \subseteq t[1] /\ t[3] \subseteq t[1]}}

(***************************************************************************)
(* has_access                                                              *)
(***************************************************************************)
\* One pass of the while loop, lines 569-573, for grant list dirs:
\* the outcome, or the next dirname.
has_access_accumulate(dirs, dirname) ==
    IF dirname \in all_dirs /\ dirname \in dirs
    THEN [done |-> TRUE, result |-> "true", dirname |-> dirname]
    ELSE IF Len(dirname) = 0 \/ dirname = <<Sep>>
    THEN [done |-> TRUE, result |-> "false", dirname |-> dirname]
    ELSE [done |-> FALSE, result |-> "none",
          dirname |-> os_path_split(dirname)[1]]

has_access_loop_no_end(dirs, dirname) ==
    IF dirname \in all_dirs
    THEN [done |-> TRUE, dirname |-> dirname,
          result |-> IF dirname \in dirs THEN "true" ELSE "false"]
    ELSE [done |-> FALSE, result |-> "none",
          dirname |-> os_path_split(dirname)[1]]

has_access_loop(dirs, dirname) ==
    IF dirname \in all_dirs
    THEN [done |-> TRUE, dirname |-> dirname,
          result |-> IF dirname \in dirs THEN "true" ELSE "false"]
    ELSE IF Len(dirname) = 0 \/ dirname = <<Sep>>
    THEN [done |-> TRUE, result |-> "false", dirname |-> dirname]
    ELSE [done |-> FALSE, result |-> "none",
          dirname |-> os_path_split(dirname)[1]]

\* lines 558-566: the lookups before the loop
has_access_lookup_returns_false(user, action) ==
    IF get_is_None(user_perms, user) THEN "false"
    ELSE IF get_is_None(user_perms[user].acts, action) THEN "false"
    ELSE "loop"

has_access_lookup(user, action) ==
    IF get_is_None(user_perms, user) THEN "AccessError"
    ELSE IF get_is_None(user_perms[user].acts, action) THEN "AccessError"
    ELSE "loop"

NoPolicy ==
    /\ all_dirs = {}
    /\ user_perms = [u \in Users |-> mk_perms(None, [a \in Access |-> {}])]

HaActions == Access \cup {"bogus"}
HaUsers == Users \cup {Mallory}

HaCall ==
    /\ ha_pc = "idle"
    /\ \E u \in HaUsers, a \in HaActions, d \in NormDirs(MaxDepth) :
         /\ ha_user' = u
         /\ ha_action' = a
         /\ ha_arg' = d
         /\ ha_dirname' = d
         /\ ha_iter' = 0
         /\ LET r == has_access_lookup(u, a)
            IN  IF r = "loop"
                THEN ha_pc' = "loop" /\ ha_result' = "none"
                ELSE ha_pc' = "ret" /\ ha_result' = r
    /\ UNCHANGED <<all_dirs, user_perms>>

HaLoop ==
    /\ ha_pc = "loop"
    /\ LET r == has_access_loop(user_perms[ha_user].acts[ha_action],
                                ha_dirname)
       IN  /\ ha_dirname' = r.dirname
           /\ ha_result' = r.result
           /\ ha_pc' = IF r.done THEN "ret" ELSE "loop"
           /\ ha_iter' = IF r.done THEN ha_iter ELSE ha_iter + 1
    /\ UNCHANGED <<all_dirs, user_perms, ha_user, ha_action, ha_arg>>

HaIdle ==
    /\ ha_pc = "idle"
    /\ ha_user = UNAUTH
    /\ ha_action = "list"
    /\ ha_arg = <<>>
    /\ ha_dirname = <<>>
    /\ ha_iter = 0
    /\ ha_result = "none"

\* the call has returned or raised; its frame is dropped
HaReturn ==
    /\ ha_pc = "ret"
    /\ ha_pc' = "idle"
    /\ ha_user' = UNAUTH
    /\ ha_action' = "list"
    /\ ha_arg' = <<>>
    /\ ha_dirname' = <<>>
    /\ ha_iter' = 0
    /\ ha_result' = "none"
    /\ UNCHANGED <<all_dirs, user_perms>>

PolicyInit ==
    \E p \in Policies : all_dirs = p.dirs /\ user_perms = p.perms

(***************************************************************************)
(* os.path.abspath and os.stat                                             *)
(***************************************************************************)
\* the loop of posixpath.normpath over the components
RECURSIVE normpath_comps(_, _, _)
normpath_comps(comps, new_comps, initial_slashes) ==
    IF comps = <<>> THEN new_comps
    ELSE LET comp == Head(comps)
             dotdot == <<".", ".">>
         IN  IF comp = <<>> \/ comp = <<".">>
             THEN normpath_comps(Tail(comps), new_comps, initial_slashes)
             ELSE IF \/ comp # dotdot
                     \/ (initial_slashes = 0 /\ new_comps = <<>>)
                     \/ (new_comps # <<>> /\ new_comps[Len(new_comps)] = dotdot)
             THEN normpath_comps(Tail(comps), Append(new_comps, comp),
                                 initial_slashes)
             ELSE IF new_comps # <<>>
             THEN normpath_comps(Tail(comps),
                                 SubSeq(new_comps, 1, Len(new_comps) - 1),
                                 initial_slashes)
             ELSE normpath_comps(Tail(comps), new_comps, initial_slashes)

RECURSIVE sep_times(_)
sep_times(n) == IF n = 0 THEN <<>> ELSE <<Sep>> \o sep_times(n - 1)

\* posixpath.normpath
os_path_normpath(path) ==
    IF path = <<>> THEN <<".">>
    ELSE LET initial_slashes ==
                 IF ~startswith(path, <<Sep>>) THEN 0
                 ELSE IF startswith(path, <<Sep, Sep>>)
                         /\ ~startswith(path, <<Sep, Sep, Sep>>) THEN 2
                 ELSE 1
             p == sep_times(initial_slashes) \o
                  str_join(normpath_comps(str_split(path), <<>>,
                                          initial_slashes))
         IN  IF p = <<>> THEN <<".">> ELSE p

\* posixpath.abspath of an absolute path (basedir is absolute, so the
\* joined path is, and the current directory is never consulted)
os_path_abspath(path) == os_path_normpath(path)

\* the non-empty components of a path
path_comps(p) == SelectSeq(str_split(p), LAMBDA c : c # <<>>)

\* Path lookup of the kernel for stat(2): every symbolic link met on the
\* way is followed; cur is the resolved directory so far (<<>> is "/").
RECURSIVE walk(_, _, _, _)
walk(f, cur, comps, fuel) ==
    IF comps = <<>> THEN [err |-> "ok", real |-> cur]
    ELSE LET nxt == cur \o <<Sep>> \o Head(comps)
         IN  IF nxt \notin DOMAIN f
             THEN [err |-> "FileNotFoundError", real |-> nxt]
             ELSE IF f[nxt].kind = "lnk"
             THEN IF fuel = 0 THEN [err |-> "OSError", real |-> nxt]
                  ELSE walk(f, <<>>,
                            path_comps(f[nxt].target) \o Tail(comps),
                            fuel - 1)
             ELSE IF Tail(comps) # <<>> /\ f[nxt].kind # "dir"
             THEN [err |-> "NotADirectoryError", real |-> nxt]
             ELSE walk(f, nxt, Tail(comps), fuel)

\* os.stat(name): the error raised, or the kind of the object the name
\* leads to after following links, and where that object really is
os_stat(f, name) ==
    LET r == walk(f, <<>>, path_comps(name), Cardinality(DOMAIN f))
    IN  IF r.err # "ok" THEN [err |-> r.err, kind |-> "none", real |-> r.real]
        ELSE [err |-> "ok",
              kind |-> IF r.real = <<>> THEN "dir" ELSE f[r.real].kind,
              real |-> IF r.real = <<>> THEN <<Sep>> ELSE r.real]

(***************************************************************************)
(* normalize_path                                                          *)
(***************************************************************************)
AccessError(code, message) ==
    [kind |-> "AccessError", code |-> code, message |-> message]

\* line 531: the containment test
inside_base_prefix_only(name, base) == startswith(name, base)

inside_base(name, base) ==
    name = base \/ startswith(name, base \o <<Sep>>)

\* lines 537-542: what either except clause raises
stat_failure(err) == AccessError(403, "forbidden")

normalize_path(f, base, path) ==
    LET split(name, parts) ==
            [kind |-> "ok", name |-> name,
             dirname |-> parts[1], fname |-> parts[2]]
        found(name, rel, sr) ==
            IF sr.err # "ok" THEN stat_failure(sr.err)
            ELSE IF sr.kind = "dir"
            THEN [kind |-> "ok", name |-> name, dirname |-> rel,
                  fname |-> None]
            ELSE IF sr.kind = "reg" THEN split(name, os_path_split(rel))
            ELSE AccessError(403, "forbidden")
        inside(name) ==
            IF ~inside_base(name, base) THEN AccessError(403, "forbidden")
            ELSE found(name, strip(SubSeq(name, Len(base) + 1, Len(name))),
                       os_stat(f, name))
    IN  inside(os_path_abspath(os_path_join(base, path)))

\* Filesystem objects; mode says what the server process may do with them
Dir == [kind |-> "dir", target |-> <<>>, data |-> 0, mode |-> "rw"]
Reg(d) == [kind |-> "reg", target |-> <<>>, data |-> d, mode |-> "rw"]
Fifo == [kind |-> "fifo", target |-> <<>>, data |-> 0, mode |-> "rw"]
Lnk(t) == [kind |-> "lnk", target |-> t, data |-> 0, mode |-> "rw"]

pA == <<"/", "a">>
pAB == <<"/", "a", "b">>
pEtc == <<"/", "e", "t", "c">>
pPasswd == pEtc \o <<"/", "p", "a", "s", "s", "w", "d">>
pLink == pA \o <<"/", "l">>

\* where the link /a/l may point: outside the base, a sibling of the base,
\* inside the base, to itself, nowhere
LinkTargets == {pPasswd, pAB, pA \o <<"/", "f">>, pLink, <<"/", "z">>}

FsWith(t) ==
    (pA :> Dir) @@ (pA \o <<"/", "f">> :> Reg(1)) @@
    (pA \o <<"/", "d">> :> Dir) @@ (pA \o <<"/", "d", "/", "f">> :> Reg(2)) @@
    (pA \o <<"/", "p">> :> Fifo) @@ (pLink :> Lnk(t)) @@
    (pAB :> Dir) @@ (pAB \o <<"/", "f">> :> Reg(3)) @@
    (pEtc :> Dir) @@ (pPasswd :> Reg(4))

\* basedir after os.path.abspath in load_config
Roots == {pA, pEtc, <<Sep>>}

\* longest user path, in segments
MaxSegs == 3

PathSegs == {<<>>, <<".">>, <<".", ".">>, <<"a">>, <<"a", "b">>, <<"f">>,
             <<"d">>, <<"l">>, <<"p">>, <<"e", "t", "c">>}

RECURSIVE PathSeqs(_)
PathSeqs(n) ==
    IF n = 0 THEN {<<>>}
    ELSE PathSeqs(n - 1) \cup
         {Append(q, x) : q \in {r \in PathSeqs(n - 1) : Len(r) = n - 1},
                         x \in PathSegs}

DotDotPasswd ==
    <<".", ".", "/", ".", ".", "/", "e", "t", "c", "/",
      "p", "a", "s", "s", "w", "d">>

\* the paths a request may carry
UserPaths == {str_join(q) : q \in PathSeqs(MaxSegs)} \cup {DotDotPasswd}

NpIdle ==
    /\ np_pc = "idle"
    /\ np_path = <<>>
    /\ np_result = [kind |-> "none"]

FsInit ==
    /\ basedir \in Roots
    /\ \E t \in LinkTargets : fs = FsWith(t)

\* the filesystem of the specifications that are not about it
FsFixed == basedir = pA /\ fs = FsWith(pPasswd)

NpCall ==
    /\ np_pc = "idle"
    /\ \E path \in UserPaths :
         /\ np_path' = path
         /\ np_result' = normalize_path(fs, basedir, path)
    /\ np_pc' = "ret"
    /\ UNCHANGED <<basedir, fs>>

NpReturn ==
    /\ np_pc = "ret"
    /\ np_pc' = "idle"
    /\ np_path' = <<>>
    /\ np_result' = [kind |-> "none"]
    /\ UNCHANGED <<basedir, fs>>

(***************************************************************************)
(* Credentials: get_user_from_request, get_user, validate_authentication   *)
(***************************************************************************)
Colon == ":"

sPw == <<"p", "w">>
sNone == <<"N", "o", "n", "e">>

\* "%s" % v
str_of(v) == IF v = None THEN sNone ELSE v

\* base64 is kept abstract: an encoded token is its text behind a marker no
\* character equals, and anything else does not decode
b64encode(text) == <<"b64">> \o text
b64decodes(tok) == tok # <<>> /\ tok[1] = "b64"
b64decode(tok) == Tail(tok)

\* str.split(":", 1)
split_colon_1(t) ==
    IF \E i \in 1..Len(t) : t[i] = Colon
    THEN LET i == CHOOSE k \in 1..Len(t) :
                      t[k] = Colon /\ \A j \in 1..(k - 1) : t[j] # Colon
         IN  <<SubSeq(t, 1, i - 1), SubSeq(t, i + 1, Len(t))>>
    ELSE <<t>>

\* lines 371-392; a request carries form keys, a Basic authorization and a
\* cred cookie, each possibly absent (None)
get_user_from_request(req) ==
    IF req.form_user # None /\ req.form_password # None
    THEN <<req.form_user, req.form_password>>
    ELSE IF req.auth # None THEN req.auth
    ELSE IF req.cookie # None /\ req.cookie # <<>>
    THEN IF b64decodes(req.cookie)
         THEN split_colon_1(b64decode(req.cookie))
         ELSE <<UNAUTH, None>>
    ELSE <<UNAUTH, None>>

\* config.user_perms.get(user, dict()).get("creds", None)
stored_creds(user) ==
    IF get_is_None(user_perms, user) THEN None ELSE user_perms[user].creds

\* line 400 and line 754: the comparison with the supplied secret
creds_equal(user, password) == stored_creds(user) = password

\* lines 395-408
get_user(req) ==
    LET up == get_user_from_request(req)
    IN  IF Len(up) # 2 THEN [kind |-> "ValueError"]
        ELSE IF creds_equal(up[1], up[2])
        THEN [kind |-> "ok", user |-> up[1], password |-> up[2],
              cred |-> b64encode(str_of(up[1]) \o <<Colon>> \o str_of(up[2]))]
        ELSE [kind |-> "ok", user |-> UNAUTH, password |-> None,
              cred |-> <<>>]

\* lines 752-757
validate_authentication(username, password) ==
    IF ~creds_equal(username, password)
    THEN [kind |-> "AuthenticationFailed"]
    ELSE [kind |-> "ok"]

\* secrets a configuration may give the configured user
Secrets == {sPw, sNone}

\* what a request may carry
ReqUsers == {UNAUTH, Alice, Mallory}
ReqPasswords == {sPw, sNone, <<>>}
ReqCookies ==
    {None, <<"x">>, b64encode(UNAUTH),
     b64encode(UNAUTH \o <<Colon>> \o sNone),
     b64encode(Alice \o <<Colon>> \o sPw)}

Requests ==
    [form_user : ReqUsers \cup {None},
     form_password : ReqPasswords \cup {None},
     auth : {None} \cup (ReqUsers \X ReqPasswords),
     cookie : ReqCookies]

NoRequest ==
    [form_user |-> None, form_password |-> None, auth |-> None,
     cookie |-> None]

AuIdle ==
    /\ au_pc = "idle"
    /\ au_op = "none"
    /\ au_req = NoRequest
    /\ au_user = None
    /\ au_password = None
    /\ au_result = [kind |-> "none"]

\* an HTTP request reaches get_user
GetUser ==
    /\ au_pc = "idle"
    /\ \E req \in Requests :
         LET up == get_user_from_request(req)
         IN  /\ au_req' = req
             /\ au_user' = up[1]
             /\ au_password' = IF Len(up) = 2 THEN up[2] ELSE None
             /\ au_result' = get_user(req)
    /\ au_op' = "get_user"
    /\ au_pc' = "ret"
    /\ UNCHANGED <<all_dirs, user_perms>>

\* the FTP handler passes the USER and PASS arguments, both strings
ValidateAuthentication ==
    /\ au_pc = "idle"
    /\ \E username \in ReqUsers, password \in ReqPasswords :
         /\ au_req' = [NoRequest EXCEPT !.auth = <<username, password>>]
         /\ au_user' = username
         /\ au_password' = password
         /\ au_result' = validate_authentication(username, password)
    /\ au_op' = "validate_authentication"
    /\ au_pc' = "ret"
    /\ UNCHANGED <<all_dirs, user_perms>>

AuReturn ==
    /\ au_pc = "ret"
    /\ au_pc' = "idle"
    /\ au_op' = "none"
    /\ au_req' = NoRequest
    /\ au_user' = None
    /\ au_password' = None
    /\ au_result' = [kind |-> "none"]
    /\ UNCHANGED <<all_dirs, user_perms>>

(***************************************************************************)
(* redirect_on_exception                                                   *)
(***************************************************************************)
NoView == [dirs |-> {}, files |-> {}, allow |-> {}]

\* a flask Response: status, body, the WWW-Authenticate challenge, the
\* Location of a redirect and the status message it carries, the cred
\* cookie, and what a rendered listing shows
Response(body, status) ==
    [kind |-> "Response", status |-> status, body |-> body,
     challenge |-> FALSE, location |-> None, note |-> "",
     cookie |-> None, view |-> NoView]

\* redirect(url_for("handle", path=..., status=...), code=302)
redirect(path, note) ==
    [Response("", 302) EXCEPT !.location = <<Sep>> \o path, !.note = note]

\* lines 411-431: what the decorated handler answers when func returns
\* resp or raises it
redirect_on_exception(outcome) ==
    IF outcome.kind = "AccessError"
    THEN IF outcome.code = 401
         THEN [Response("Unauthorized", 401) EXCEPT !.challenge = TRUE]
         ELSE Response(outcome.message, outcome.code)
    ELSE IF outcome.kind = "Response" THEN outcome
    ELSE redirect(<<>>, "")

(***************************************************************************)
(* streamfile                                                              *)
(***************************************************************************)
Digits == <<"0", "1", "2", "3", "4", "5", "6", "7", "8", "9">>

IsDigit(c) == \E i \in 1..10 : Digits[i] = c

digit_value(c) == (CHOOSE i \in 1..10 : Digits[i] = c) - 1

\* int(s) of a string of digits
RECURSIVE int_of(_)
int_of(s) ==
    IF s = <<>> THEN 0
    ELSE 10 * int_of(SubSeq(s, 1, Len(s) - 1)) + digit_value(s[Len(s)])

\* "{0}".format(n)
RECURSIVE str_of_nat(_)
str_of_nat(n) ==
    IF n < 10 THEN <<Digits[n + 1]>>
    ELSE str_of_nat(n \div 10) \o <<Digits[(n % 10) + 1]>>

str_of_int(n) == IF n < 0 THEN <<"-">> \o str_of_nat(-n) ELSE str_of_nat(n)

\* the index after the longest run of digits of s that starts at i
RECURSIVE digits_end(_, _)
digits_end(s, i) ==
    IF i <= Len(s) /\ IsDigit(s[i]) THEN digits_end(s, i + 1) ELSE i

\* (\d+)-(\d*) matches at i: digits from i, a hyphen right after them
match_at(s, i) ==
    /\ i <= Len(s) /\ IsDigit(s[i])
    /\ digits_end(s, i) <= Len(s) /\ s[digits_end(s, i)] = "-"

\* re.search(r'(\d+)-(\d*)', s): None, or the groups of the leftmost match
re_search(s) ==
    IF \E i \in 1..Len(s) : match_at(s, i)
    THEN LET i == CHOOSE k \in 1..Len(s) :
                      match_at(s, k) /\ \A j \in 1..(k - 1) : ~match_at(s, j)
             h == digits_end(s, i)
         IN  [matched |-> TRUE,
              g |-> <<SubSeq(s, i, h - 1),
                      SubSeq(s, h + 1, digits_end(s, h + 1) - 1)>>]
    ELSE [matched |-> FALSE, g |-> <<>>]

min(a, b) == IF a <= b THEN a ELSE b

\* lines 658-660
range_length(size, byte1, byte2) ==
    IF byte2 # -1 THEN min(byte2 - byte1 + 1, size - byte1)
    ELSE size - byte1

\* lines 666-670
content_range(byte1, length, size) ==
    <<"b", "y", "t", "e", "s", " ">> \o str_of_int(byte1) \o <<"-">> \o
    str_of_int(byte1 + length - 1) \o <<"/">> \o str_of_int(size)

\* lines 641-671: the response, or the exception raised; byte2 = -1 stands
\* for None
streamfile(size, range_header) ==
    IF range_header = None \/ range_header = <<>>
    THEN [iter |-> "send_file", start |-> 0, length |-> size,
          content_range |-> None] @@ Response("file", 200)
    ELSE LET m == re_search(range_header)
         IN  IF ~m.matched THEN [kind |-> "AttributeError"]
             ELSE LET byte1 == IF m.g[1] # <<>> THEN int_of(m.g[1]) ELSE 0
                      byte2 == IF m.g[2] # <<>> THEN int_of(m.g[2]) ELSE -1
                      length == range_length(size, byte1, byte2)
                  IN  [iter |-> "send_chunks_iter",
                       start |-> byte1, length |-> length,
                       content_range |->
                           content_range(byte1, length, size)]
                      @@ Response("file", 206)

\* the file served holds at every offset a byte that tells the offset
file_byte(off) == off % 256

\* f.seek(pos); f.read(n) on a file of the given size
file_read(size, pos, n) ==
    IF n <= 0 \/ pos >= size \/ pos < 0 THEN <<>>
    ELSE [i \in 1..min(n, size - pos) |-> file_byte(pos + i - 1)]

\* lines 631-634: the size of the next chunk
next_chunk_full(offset, length, chunk) == chunk

next_chunk(offset, length, chunk) ==
    IF offset + chunk > length THEN length - offset ELSE chunk

\* largest file and chunk size of the small cases
MaxSize == 4
MaxChunk == 3
\* the file of the examples
BigSize == 1000

sBytesEq == <<"b", "y", "t", "e", "s", "=">>

\* the range specifiers of the examples and malformed ones
ExampleRanges ==
    {<<"0", "-", "9", "9">>, <<"9", "0", "0", "-">>, <<"a", "b", "c">>,
     <<"-", "5", "0", "0">>}

RangeHeaders(size) ==
    {None, <<>>} \cup
    {sBytesEq \o r : r \in
        IF size = BigSize THEN ExampleRanges
        ELSE {str_of_nat(b1) \o <<"-">> : b1 \in 0..size} \cup
             {str_of_nat(b1) \o <<"-">> \o str_of_nat(b2) :
                  b1 \in 0..size, b2 \in 0..(size + 1)} \cup
             {<<"a", "b", "c">>, <<"-", "2">>, <<"1">>,
              <<"x", "-", "1", "-", "2">>}}

SfIdle ==
    /\ sf_pc = "idle"
    /\ sf_header = None
    /\ sf_resp = [kind |-> "none"]
    /\ sf_start = 0
    /\ sf_length = 0
    /\ sf_offset = 0
    /\ sf_handle = "none"
    /\ sf_body = <<>>
    /\ sf_end = "none"

SfFixed == chunksize = 1 /\ sf_size = 1 /\ SfIdle

SfInit ==
    /\ sf_size \in (1..MaxSize) \cup {BigSize}
    /\ chunksize \in IF sf_size = BigSize THEN {MaxChunk, 64}
                     ELSE 1..MaxChunk
    /\ SfIdle

\* streamfile(fullname) is called for a request
SfCall ==
    /\ sf_pc = "idle"
    /\ \E h \in RangeHeaders(sf_size) :
         LET r == streamfile(sf_size, h)
         IN  /\ sf_header' = h
             /\ sf_resp' = r
             /\ IF r.kind = "Response"
                THEN /\ sf_pc' = "resp"
                     /\ sf_start' = r.start
                     /\ sf_length' = r.length
                ELSE /\ sf_pc' = "done"
                     /\ UNCHANGED <<sf_start, sf_length>>
    /\ sf_offset' = 0
    /\ sf_handle' = "none"
    /\ sf_body' = <<>>
    /\ sf_end' = "none"
    /\ UNCHANGED <<chunksize, sf_size>>

\* flask's send_file response hands over the whole file
SfSendFile ==
    /\ sf_pc = "resp" /\ sf_resp.iter = "send_file"
    /\ sf_body' = file_read(sf_size, 0, sf_size)
    /\ sf_pc' = "done"
    /\ sf_end' = "exhausted"
    /\ UNCHANGED <<chunksize, sf_size, sf_header, sf_resp, sf_start,
                   sf_length, sf_offset, sf_handle>>

with_exit_leaves_open == "open"

\* line 627: what leaving the with block makes of the handle
with_exit == "closed"

\* next() on the generator send_chunks_iter, lines 626-639: it runs to the
\* next yield, or leaves the with block and ends
SfNextChunk ==
    /\ sf_pc \in {"resp", "streaming"} /\ sf_resp.iter = "send_chunks_iter"
    /\ IF sf_offset < sf_length
       THEN LET chunk == next_chunk(sf_offset, sf_length, chunksize)
            IN  /\ sf_handle' = "open"
                /\ sf_offset' = sf_offset + chunk
                /\ sf_body' = sf_body \o
                       file_read(sf_size, sf_start + sf_offset, chunk)
                /\ sf_pc' = "streaming"
                /\ sf_end' = "none"
       ELSE /\ sf_handle' = with_exit
            /\ sf_pc' = "done"
            /\ sf_end' = "exhausted"
            /\ UNCHANGED <<sf_offset, sf_body>>
    /\ UNCHANGED <<chunksize, sf_size, sf_header, sf_resp, sf_start,
                   sf_length>>

\* f.read raises inside the with block, which closes f on the way out
SfReadError ==
    /\ sf_pc \in {"resp", "streaming"} /\ sf_resp.iter = "send_chunks_iter"
    /\ sf_offset < sf_length
    /\ sf_handle' = with_exit
    /\ sf_pc' = "done"
    /\ sf_end' = "error"
    /\ UNCHANGED <<chunksize, sf_size, sf_header, sf_resp, sf_start,
                   sf_length, sf_offset, sf_body>>

\* the consumer goes away and the server closes the iterator: GeneratorExit
\* is raised at the yield, inside the with block; a generator that never
\* started has opened nothing
SfDisconnect ==
    /\ sf_pc \in {"resp", "streaming"} /\ sf_resp.iter = "send_chunks_iter"
    /\ sf_handle' = IF sf_handle = "open" THEN with_exit ELSE sf_handle
    /\ sf_pc' = "done"
    /\ sf_end' = "closed"
    /\ UNCHANGED <<chunksize, sf_size, sf_header, sf_resp, sf_start,
                   sf_length, sf_offset, sf_body>>

\* the request is over
SfReturn ==
    /\ sf_pc = "done"
    /\ sf_pc' = "idle"
    /\ sf_header' = None
    /\ sf_resp' = [kind |-> "none"]
    /\ sf_start' = 0
    /\ sf_length' = 0
    /\ sf_offset' = 0
    /\ sf_handle' = "none"
    /\ sf_body' = <<>>
    /\ sf_end' = "none"
    /\ UNCHANGED <<chunksize, sf_size>>

(***************************************************************************)
(* Filesystem calls of the operations                                      *)
(***************************************************************************)
\* the key of the filesystem map a path string leads to, links not followed
fs_key(name) ==
    LET key(comps) ==
            IF comps = <<>> THEN <<Sep>> ELSE <<Sep>> \o str_join(comps)
    IN  key(path_comps(name))

parent_of(key) == os_path_split(key)[1]

\* the directory that holds name exists after following links, and may be
\* written
parent_writable(f, name) ==
    LET writable(st) ==
            /\ st.err = "ok" /\ st.kind = "dir"
            /\ (st.real = <<Sep>> \/ f[st.real].mode \in {"rw", "w"})
    IN  writable(os_stat(f, parent_of(fs_key(name))))

\* os.access(name, os.R_OK)
os_access(f, name) ==
    LET readable(st) ==
            /\ st.err = "ok"
            /\ (st.real = <<Sep>> \/ f[st.real].mode \in {"rw", "r"})
    IN  readable(os_stat(f, name))

\* open(name, "xb") and the write
open_write_exclusive(f, name, data) ==
    LET opened(st, key) ==
            IF st.err = "ok" THEN [err |-> "FileExistsError", fs |-> f]
            ELSE IF ~parent_writable(f, name)
            THEN [err |-> "OSError", fs |-> f]
            ELSE [err |-> "ok", fs |-> (key :> Reg(data)) @@ f]
    IN  opened(os_stat(f, name), fs_key(name))

\* open(name, "wb") and the write: the new filesystem, or the error
open_write(f, name, data) ==
    LET opened(st, key) ==
            IF st.err = "ok"
            THEN IF st.kind = "reg" /\ f[st.real].mode \in {"rw", "w"}
                 THEN [err |-> "ok",
                       fs |-> [f EXCEPT ![st.real].data = data]]
                 ELSE [err |-> "OSError", fs |-> f]
            ELSE IF st.err # "FileNotFoundError" \/ st.real # key
                    \/ ~parent_writable(f, name)
            THEN [err |-> "OSError", fs |-> f]
            ELSE [err |-> "ok", fs |-> (key :> Reg(data)) @@ f]
    IN  opened(os_stat(f, name), fs_key(name))

\* os.remove(name): the name itself is removed, not what a link leads to
os_remove(f, name) ==
    LET removed(key) ==
            IF key \notin DOMAIN f
            THEN [err |-> "FileNotFoundError", fs |-> f]
            ELSE IF f[key].kind = "dir"
            THEN [err |-> "IsADirectoryError", fs |-> f]
            ELSE IF ~parent_writable(f, name)
            THEN [err |-> "PermissionError", fs |-> f]
            ELSE [err |-> "ok", fs |-> [q \in DOMAIN f \ {key} |-> f[q]]]
    IN  removed(fs_key(name))

\* os.makedirs(name) / os.mkdir(name) below an existing directory
os_makedirs(f, name) ==
    LET made(key) ==
            IF key = <<Sep>> \/ key \in DOMAIN f
            THEN [err |-> "FileExistsError", fs |-> f]
            ELSE IF ~parent_writable(f, name)
            THEN [err |-> "PermissionError", fs |-> f]
            ELSE [err |-> "ok", fs |-> (key :> Dir) @@ f]
    IN  made(fs_key(name))

\* os.rmdir(name)
os_rmdir(f, name) ==
    LET removed(key) ==
            IF key \notin DOMAIN f \/ f[key].kind # "dir"
               \/ (\E q \in DOMAIN f : parent_of(q) = key)
               \/ ~parent_writable(f, name)
            THEN [err |-> "OSError", fs |-> f]
            ELSE [err |-> "ok", fs |-> [q \in DOMAIN f \ {key} |-> f[q]]]
    IN  removed(fs_key(name))

\* lines 576-593: the names below dirname that are directories, and those
\* that are regular files, hidden names left out
list_dir(f, dirname) ==
    LET sorted(kinds) ==
            [dirs |-> {n \in DOMAIN kinds : kinds[n] = "dir"},
             files |-> {n \in DOMAIN kinds : kinds[n] = "reg"}]
        names(real) ==
            {os_path_split(q)[2] : q \in {k \in DOMAIN f : parent_of(k) = real}}
        listed(real) ==
            sorted([n \in {m \in names(real) : ~startswith(m, <<".">>)} |->
                      os_stat(f, os_path_join(real, n)).kind])
    IN  listed(os_stat(f, dirname).real)

(***************************************************************************)
(* The HTTP adapter: handle and its operations                             *)
(***************************************************************************)
\* has_access run to its end: "true", "false" or "AccessError"
RECURSIVE has_access_run(_, _)
has_access_run(dirs, dirname) ==
    LET stepped(r) ==
            IF r.done THEN r.result ELSE has_access_run(dirs, r.dirname)
    IN  stepped(has_access_loop(dirs, dirname))

has_access(user, dirname, action) ==
    LET decided(l) ==
            IF l # "loop" THEN l
            ELSE has_access_run(user_perms[user].acts[action], dirname)
    IN  decided(has_access_lookup(user, action))

Letters ==
    {"a", "b", "c", "d", "e", "f", "g", "h", "i", "j", "k", "l", "m", "n",
     "o", "p", "q", "r", "s", "t", "u", "v", "w", "x", "y", "z"}

RECURSIVE strip_spaces(_)
strip_spaces(t) ==
    IF t # <<>> /\ Head(t) = " " THEN strip_spaces(Tail(t))
    ELSE IF t # <<>> /\ t[Len(t)] = " "
    THEN strip_spaces(SubSeq(t, 1, Len(t) - 1))
    ELSE t

\* django.utils.text.get_valid_filename: strip, spaces to underscores, and
\* everything but word characters, hyphens and dots dropped
get_valid_filename(name) ==
    LET cleaned(t) ==
            SelectSeq([i \in 1..Len(t) |-> IF t[i] = " " THEN "_" ELSE t[i]],
                      LAMBDA c : \/ c \in Letters \/ IsDigit(c)
                                 \/ c \in {"_", "-", "."})
    IN  cleaned(strip_spaces(name))

NoEffect == [kind |-> "none", dir |-> <<>>]

\* what an operation leaves: the response or exception, the filesystem,
\* and the effect performed on a directory
Outcome(resp, f, effect) == [resp |-> resp, fs |-> f, effect |-> effect]

Raised(kind) == [kind |-> kind]

\* line 462: the sanitized name of the uploaded file
upload_fname(filename) == get_valid_filename(os_path_split(filename)[2])

\* lines 463-464: the name the upload is saved under
upload_fullname(directory, fname) ==
    os_path_join(basedir, os_path_join(directory, fname))

\* lines 465-470: the checks before the write; "pass" when there is no
\* objection
upload_check(f, directory, fname, fullname) ==
    IF fname = <<>>
    THEN Outcome(redirect(directory, "invalid filename"), f, NoEffect)
    ELSE IF os_access(f, fullname)
    THEN Outcome(Response("duplicate", 403), f, NoEffect)
    ELSE Outcome(Raised("pass"), f, NoEffect)

\* lines 471-477: file.save and the answer
upload_save(f, directory, fullname, data) ==
    LET saved(w) ==
            IF w.err # "ok" THEN Outcome(Raised(w.err), f, NoEffect)
            ELSE Outcome(redirect(directory, "saved"), w.fs,
                         [kind |-> "write", dir |-> directory])
    IN  saved(open_write(f, fullname, data))

\* lines 460-477
upload_file(f, directory, filename, data) ==
    LET checked(c, fullname) ==
            IF c.resp.kind # "pass" THEN c
            ELSE upload_save(f, directory, fullname, data)
        named(fname, fullname) ==
            checked(upload_check(f, directory, fname, fullname), fullname)
        sanitized(fname) == named(fname, upload_fullname(directory, fname))
    IN  sanitized(upload_fname(filename))

\* lines 480-497
delete_file(f, dirname, filename) ==
    LET removed(r) ==
            IF r.err = "ok"
            THEN Outcome(redirect(dirname, "deleted"), r.fs,
                         [kind |-> "delete", dir |-> dirname])
            ELSE Outcome(Response("permission denied", 403), f, NoEffect)
    IN  removed(os_remove(f, os_path_join(basedir,
                                          os_path_join(dirname, filename))))

\* lines 500-518
make_dir(f, dirname, newname) ==
    LET made(r) ==
            IF r.err = "ok"
            THEN Outcome(redirect(dirname, "created"), r.fs,
                         [kind |-> "mkdir", dir |-> dirname])
            ELSE Outcome(Response("permission denied", 403), f, NoEffect)
    IN  made(os_makedirs(f, os_path_join(basedir,
                 os_path_join(dirname, get_valid_filename(newname)))))

\* lines 596-607, applied to what list_dir found
filter_file_list(f, user, fullname, dirname) ==
    LET listable(d) ==
            \E a \in {"list", "write", "mkdir"} :
               has_access(user, os_path_join(dirname, d), a) = "true"
        filtered(l) ==
            [files |-> IF has_access(user, dirname, "list") = "true"
                       THEN l.files ELSE {},
             dirs |-> {d \in l.dirs : listable(d)}]
    IN  filtered(list_dir(f, fullname))

\* lines 691-711: the page, by what the template is given
listing(f, user, fullname, dirname) ==
    LET page(l) ==
            [Response("listing", 200) EXCEPT
               !.view = [files |-> l.files, dirs |-> l.dirs,
                         allow |-> {a \in {"write", "delete", "read", "mkdir"} :
                                      has_access(user, dirname, a) = "true"}]]
    IN  page(filter_file_list(f, user, fullname, dirname))

\* values of the request's action key
aList == <<"l", "i", "s", "t">>
aUpload == <<"u", "p", "l", "o", "a", "d">>
aDelete == <<"d", "e", "l", "e", "t", "e">>
aMkdir == <<"m", "k", "d", "i", "r">>

\* lines 684-740: the branch taken for a resolved path and an action, acc
\* being what has_access says for each action on the directory; an
\* AccessError raised by has_access is the 403 of the branch, except in the
\* listing branch, whose own denial is 401
dispatch_on(f, user, np, req, acc) ==
    LET isdir == np.fname = None
        isfile == np.fname # None /\ np.fname # <<>>
        denied == Outcome(AccessError(403, "forbidden"), f, NoEffect)
    IN  IF isdir /\ req.action \in {None, aList}
        THEN IF acc["list"] = "AccessError"
             THEN denied
             ELSE IF \A a \in {"list", "write", "mkdir"} : acc[a] # "true"
             THEN Outcome(AccessError(401, "forbidden"), f, NoEffect)
             ELSE Outcome(listing(f, user, np.name, np.dirname), f,
                          [kind |-> "list", dir |-> np.dirname])
        ELSE IF isdir /\ req.action = aUpload
        THEN IF acc["write"] = "true"
             THEN upload_file(f, np.dirname, req.name, req.data)
             ELSE denied
        ELSE IF isfile /\ req.action = aDelete
        THEN IF acc["delete"] = "true"
             THEN delete_file(f, np.dirname, np.fname)
             ELSE denied
        ELSE IF isdir /\ req.action = aMkdir
        THEN IF acc["mkdir"] = "true"
             THEN make_dir(f, np.dirname, req.name)
             ELSE denied
        ELSE IF isfile /\ req.action = None
        THEN IF acc["read"] = "true"
             THEN IF req.range = None /\ ~os_access(f, np.name)
                  THEN \* send_file opens the file
                       Outcome(Raised("PermissionError"), f, NoEffect)
                  ELSE Outcome(streamfile(f[os_stat(f, np.name).real].data,
                                          req.range),
                               f, [kind |-> "read", dir |-> np.dirname])
             ELSE denied
        ELSE Outcome(Raised("UnboundLocalError"), f, NoEffect)

dispatch(f, user, np, req) ==
    dispatch_on(f, user, np, req,
                [a \in Access |-> has_access(user, np.dirname, a)])

\* lines 677-743, undecorated: what handle returns or raises
handle_inner(f, req) ==
    LET answered(o, cred) ==
            IF o.resp.kind = "Response" THEN [o EXCEPT !.resp.cookie = cred]
            ELSE o
        resolved(gu, np) ==
            IF gu.kind # "ok" THEN Outcome(gu, f, NoEffect)
            ELSE IF np.kind # "ok" THEN Outcome(np, f, NoEffect)
            ELSE answered(dispatch(f, gu.user, np, req), gu.cred)
    IN  resolved(get_user(req.creds), normalize_path(f, basedir, req.path))

\* handle as routed: decorated with redirect_on_exception
handle(f, req) ==
    LET decorated(o) ==
            [o EXCEPT !.resp = redirect_on_exception(o.resp),
                      !.effect = IF o.resp.kind = "Response" THEN o.effect
                                 ELSE NoEffect]
    IN  decorated(handle_inner(f, req))

(***************************************************************************)
(* The FTP adapter: MyAuthorizer.has_perm and MyFilesystem                 *)
(***************************************************************************)
\* lines 801-804
strip_path(path) ==
    lstrip(IF startswith(path, basedir)
           THEN SubSeq(path, Len(basedir) + 1, Len(path))
           ELSE path)

\* lines 806-824: an AccessError of has_access counts as a refusal
MyFilesystem_has_access(user, path, access_list) ==
    \E a \in access_list : has_access(user, strip_path(path), a) = "true"

FilesystemError == [kind |-> "FilesystemError", message |-> "invalid path"]

Returned == [kind |-> "ok"]

\* what the method of AbstractedFS it delegates to raises
OSErrorOf(err) == [kind |-> "OSError", message |-> err]

\* the outcome of a method of AbstractedFS that changed, or failed to
\* change, the directory that holds path
ftp_changed(f, r, kind, path) ==
    IF r.err = "ok"
    THEN Outcome(Returned, r.fs,
                 [kind |-> kind, dir |-> strip_path(parent_of(fs_key(path)))])
    ELSE Outcome(OSErrorOf(r.err), f, NoEffect)

\* lines 832-836
MyFilesystem_chdir(f, user, path) ==
    IF MyFilesystem_has_access(user, path, {"list", "mkdir", "write"})
    THEN Outcome(Returned, f, NoEffect)
    ELSE Outcome(FilesystemError, f, NoEffect)

\* lines 838-842
MyFilesystem_mkdir(f, user, path) ==
    IF MyFilesystem_has_access(user, path, {"mkdir"})
    THEN ftp_changed(f, os_makedirs(f, path), "mkdir", path)
    ELSE Outcome(FilesystemError, f, NoEffect)

\* lines 844-852
MyFilesystem_listdir(f, user, path) ==
    LET listed(l) ==
            Outcome([kind |-> "ok", names |-> l.dirs \cup l.files],
                    f, [kind |-> "list", dir |-> strip_path(path)])
    IN  IF MyFilesystem_has_access(user, path, {"list"})
        THEN IF os_stat(f, path).kind # "dir"
             THEN Outcome(OSErrorOf("NotADirectoryError"), f, NoEffect)
             ELSE listed(filter_file_list(f, user, path, strip_path(path)))
        ELSE Outcome(FilesystemError, f, NoEffect)

\* lines 854-858
MyFilesystem_remove(f, user, path) ==
    IF MyFilesystem_has_access(user, path, {"delete"})
    THEN ftp_changed(f, os_remove(f, path), "delete", path)
    ELSE Outcome(FilesystemError, f, NoEffect)

\* AbstractedFS.rmdir, which MyFilesystem does not override
MyFilesystem_rmdir(f, user, path) ==
    ftp_changed(f, os_rmdir(f, path), "delete", path)

\* what open(filename, mode) and the write leave: "wb" replaces the
\* content, "ab" adds to it, "r+b" writes into a file that must be there
open_mode(f, name, mode, data) ==
    LET opened(st) ==
            IF mode[1] = "r" /\ st.err # "ok"
            THEN [err |-> st.err, fs |-> f]
            ELSE open_write(f, name,
                            IF mode[1] = "a" /\ st.err = "ok"
                               /\ st.kind = "reg"
                            THEN f[st.real].data + data ELSE data)
    IN  opened(os_stat(f, name))

\* lines 866-879 and the transfer that follows: mode is "wb" for STOR,
\* "r+b" for STOR after REST, "ab" for APPE and "rb" for RETR
MyFilesystem_open(f, user, filename, mode, data) ==
    LET haswrite == \E i \in 1..Len(mode) : mode[i] = "w"
        read(st, dir) ==
            IF st.err = "ok" /\ st.kind = "reg"
            THEN Outcome(Returned, f, [kind |-> "read", dir |-> dir])
            ELSE Outcome(OSErrorOf("OSError"), f, NoEffect)
        written(w, dir) ==
            IF w.err = "ok"
            THEN Outcome(Returned, w.fs, [kind |-> "write", dir |-> dir])
            ELSE Outcome(OSErrorOf(w.err), f, NoEffect)
        gated(path) ==
            IF ~MyFilesystem_has_access(user, path,
                   IF haswrite THEN {"write"} ELSE {"read"})
            THEN Outcome(FilesystemError, f, NoEffect)
            ELSE IF mode = <<"r", "b">>
            THEN read(os_stat(f, filename), strip_path(path))
            ELSE written(open_mode(f, filename, mode, data),
                         strip_path(path))
    IN  gated(os_path_split(filename)[1])

\* lines 780-796: the permission letters the authorizer lets through
has_perm(username, perm, path) == perm \in {"e", "l", "m", "r", "w", "d"}

\* the permission letter the FTP handler asks has_perm for before it calls
\* the method
ftp_perm(cmd) ==
    CASE cmd.op = "chdir" -> "e"
      [] cmd.op = "listdir" -> "l"
      [] cmd.op = "mkdir" -> "m"
      [] cmd.op \in {"remove", "rmdir"} -> "d"
      [] cmd.op = "rename" -> "f"
      [] cmd.op = "open" /\ cmd.mode = <<"r", "b">> -> "r"
      [] cmd.op = "open" /\ cmd.mode = <<"a", "b">> -> "a"
      [] OTHER -> "w"

\* one command of the logged-in user: has_perm, then the method of
\* MyFilesystem
ftp_call(f, user, cmd) ==
    IF ~has_perm(user, ftp_perm(cmd), cmd.path)
    THEN Outcome([kind |-> "NotEnoughPrivileges"], f, NoEffect)
    ELSE
    CASE cmd.op = "chdir" -> MyFilesystem_chdir(f, user, cmd.path)
      [] cmd.op = "mkdir" -> MyFilesystem_mkdir(f, user, cmd.path)
      [] cmd.op = "listdir" -> MyFilesystem_listdir(f, user, cmd.path)
      [] cmd.op = "remove" -> MyFilesystem_remove(f, user, cmd.path)
      [] cmd.op = "rmdir" -> MyFilesystem_rmdir(f, user, cmd.path)
      [] cmd.op = "open" ->
            MyFilesystem_open(f, user, cmd.path, cmd.mode, cmd.data)
      [] OTHER -> Outcome(FilesystemError, f, NoEffect)

(***************************************************************************)
(* The server: requests of both adapters, one after the other              *)
(***************************************************************************)
\* requests that may change the filesystem
MaxOps == 1

pD == <<"d">>
pDF == <<"d", "/", "f">>
sN == <<"n">>

\* the filesystem of the server: FsWith plus a file the server may write
\* but not read, and an empty directory
ServerFs ==
    (pA \o <<"/", "d", "/", "w">> :> [Reg(5) EXCEPT !.mode = "w"]) @@
    (pA \o <<"/", "d", "/", "e">> :> Dir) @@
    FsWith(pPasswd)

\* the root and d are registered; anyone may list the root, and the
\* configured user holds the actions acts on d
ServerPolicy(acts) ==
    [u \in Users |->
       IF u = UNAUTH
       THEN mk_perms(None, [a \in Access |->
                              IF a = "list" THEN {<<>>} ELSE {}])
       ELSE mk_perms(sPw, [a \in Access |->
                             IF a \in acts THEN {pD} ELSE {}])]

GrantSets == {{}, Access} \cup {{a} : a \in Access}

\* credentials of a request: none, the configured user's, a cred cookie
\* without a colon
ServerCreds ==
    {NoRequest,
     [NoRequest EXCEPT !.form_user = Alice, !.form_password = sPw],
     [NoRequest EXCEPT !.cookie = b64encode(UNAUTH)]}

ServerPaths ==
    {<<>>, pD, pDF, <<"f">>, <<"z">>, <<".", ".", "/", "a", "b">>, <<"p">>,
     <<"l">>, <<"d", "/", "w">>, <<"f", "/", "x">>}

NewNames == {sN, <<"f">>, <<"w">>, <<>>, <<".", ".", "/", "n">>}

HttpRequests ==
    {r \in [creds : ServerCreds, path : ServerPaths,
            action : {None, aList, aUpload, aDelete, aMkdir, <<"x">>},
            name : NewNames, data : {9},
            range : {None, sBytesEq \o <<"0", "-">>,
                     sBytesEq \o <<"a", "b", "c">>}] :
        /\ r.action \notin {aUpload, aMkdir} => r.name = sN
        /\ r.action # None => r.range = None}

FtpPaths ==
    {os_path_join(basedir, q) :
        q \in {<<>>, pD, pDF, <<"f">>, <<"d", "/", "n">>, <<"n">>,
               <<"d", "/", "e">>}}

FtpCommands ==
    {c \in [op : {"chdir", "mkdir", "listdir", "remove", "rmdir", "open",
                  "rename"},
            path : FtpPaths,
            mode : {<<"w", "b">>, <<"r", "+", "b">>, <<"a", "b">>,
                    <<"r", "b">>},
            data : {9}] :
        c.op # "open" => c.mode = <<"r", "b">>}

NoReq == [op |-> "none"]

HsIdle ==
    /\ hs_pc = "idle"
    /\ hs_proto = "none"
    /\ hs_req = NoReq
    /\ hs_resp = [kind |-> "none"]
    /\ hs_effect = NoEffect
    /\ hs_fs0 = fs
    /\ hs_ops = 0

HsAnswer(proto, req, o) ==
    /\ o.fs # fs => hs_ops < MaxOps
    /\ hs_pc' = "ret"
    /\ hs_proto' = proto
    /\ hs_req' = req
    /\ hs_resp' = o.resp
    /\ hs_effect' = o.effect
    /\ hs_fs0' = fs
    /\ fs' = o.fs
    /\ hs_ops' = IF o.fs # fs THEN hs_ops + 1 ELSE hs_ops
    /\ UNCHANGED <<basedir, all_dirs, user_perms>>

\* an HTTP request is routed to handle and answered
HttpRequest ==
    /\ hs_pc = "idle"
    /\ \E req \in HttpRequests : HsAnswer("http", req, handle(fs, req))

\* the FTP handler calls a method of MyFilesystem for the logged-in user;
\* validate_authentication lets only configured users log in
FtpCommand ==
    /\ hs_pc = "idle"
    /\ \E cmd \in FtpCommands : HsAnswer("ftp", cmd, ftp_call(fs, Alice, cmd))

HsReturn ==
    /\ hs_pc = "ret"
    /\ hs_pc' = "idle"
    /\ hs_proto' = "none"
    /\ hs_req' = NoReq
    /\ hs_resp' = [kind |-> "none"]
    /\ hs_effect' = NoEffect
    /\ hs_fs0' = fs
    /\ UNCHANGED <<hs_ops, fs, basedir, all_dirs, user_perms>>

(***************************************************************************)
(* Concurrent uploads.  The HTTP server is a gevent WSGIServer run without *)
(* monkey patching: a handler keeps the hub from os.access to file.save,   *)
(* so no other HTTP handler runs in between.  The FTP server runs in a     *)
(* thread of its own (lines 916-917) and interleaves with both.            *)
(***************************************************************************)
Uploaders == {"h1", "h2"}
Procs == Uploaders \cup {"ftp"}

\* what each one uploads
RaceData(p) == CASE p = "h1" -> 1 [] p = "h2" -> 2 [] OTHER -> 3

RaceNames == {sN, <<"f">>}

RcIdle ==
    /\ rc_pc = [p \in Procs |-> "start"]
    /\ rc_name = [p \in Procs |-> <<>>]
    /\ rc_resp = [p \in Procs |-> [kind |-> "none"]]
    /\ rc_hub = "free"
    /\ rc_log = <<>>

RcStep(p, step, pc, resp) ==
    /\ rc_pc' = [rc_pc EXCEPT ![p] = pc]
    /\ rc_resp' = [rc_resp EXCEPT ![p] = resp]
    /\ rc_log' = Append(rc_log, <<p, step>>)
    /\ UNCHANGED <<basedir, all_dirs, user_perms>>

\* handle for an upload to d by the configured user, up to line 470
UploadChecked(h, nm, c) ==
    /\ rc_name' = [rc_name EXCEPT ![h] = nm]
    /\ IF has_access(Alice, pD, "write") # "true"
       THEN /\ RcStep(h, "check", "done",
                      redirect_on_exception(AccessError(403, "forbidden")))
            /\ UNCHANGED rc_hub
       ELSE IF c.resp.kind = "pass"
       THEN /\ RcStep(h, "check", "checked", rc_resp[h])
            /\ rc_hub' = h
       ELSE /\ RcStep(h, "check", "done", c.resp)
            /\ UNCHANGED rc_hub

UploadCheck(h) ==
    /\ rc_pc[h] = "start" /\ rc_hub = "free"
    /\ \E nm \in RaceNames :
          UploadChecked(h, nm,
              upload_check(fs, pD, upload_fname(nm),
                           upload_fullname(pD, upload_fname(nm))))
    /\ UNCHANGED fs

UploadSaved(h, o) ==
    /\ fs' = o.fs
    /\ RcStep(h, "save", "done", redirect_on_exception(o.resp))

\* lines 471-477, and redirect_on_exception around them
UploadSave(h) ==
    /\ rc_pc[h] = "checked"
    /\ UploadSaved(h, upload_save(fs, pD,
                       upload_fullname(pD, upload_fname(rc_name[h])),
                       RaceData(h)))
    /\ rc_hub' = "free"
    /\ UNCHANGED rc_name

FtpName(nm) == os_path_join(basedir, os_path_join(pD, nm))

FtpStorOpened(nm, o) ==
    /\ rc_name' = [rc_name EXCEPT !["ftp"] = nm]
    /\ fs' = o.fs
    /\ RcStep("ftp", "open",
              IF o.resp.kind = "ok" THEN "open" ELSE "done", o.resp)

\* STOR: MyFilesystem.open(filename, "wb") creates or empties the file
FtpStorOpen ==
    /\ rc_pc["ftp"] = "start"
    /\ has_perm(Alice, "w", FtpName(<<>>))
    /\ \E nm \in RaceNames :
          FtpStorOpened(nm, MyFilesystem_open(fs, Alice, FtpName(nm),
                                              <<"w", "b">>, 0))
    /\ UNCHANGED rc_hub

\* the data arrives and is written through the open file, which is closed
FtpStorWrite ==
    /\ rc_pc["ftp"] = "open"
    /\ fs' = [fs EXCEPT ![os_stat(fs, FtpName(rc_name["ftp"])).real].data =
                           RaceData("ftp")]
    /\ RcStep("ftp", "write", "done", Returned)
    /\ UNCHANGED <<rc_name, rc_hub>>

(***************************************************************************)
(* has_access on the directory strings the adapters hand it                *)
(***************************************************************************)
\* longest path string of a request, in characters
MaxRaw == 4

RawChars == {Sep, "a", "b"}

RECURSIVE RawPaths(_)
RawPaths(n) ==
    IF n = 0 THEN {<<>>}
    ELSE RawPaths(n - 1) \cup
         {Append(q, c) : q \in {r \in RawPaths(n - 1) : Len(r) = n - 1},
                         c \in RawChars}

\* lines 528-529: the relative path normalize_path returns for a directory
normalize_path_rel(base, path) ==
    LET rel(name) == strip(SubSeq(name, Len(base) + 1, Len(name)))
    IN  rel(os_path_abspath(os_path_join(base, path)))

\* has_access is entered with directory string d
HaEnter(u, a, d) ==
    /\ ha_pc = "idle"
    /\ ha_user' = u
    /\ ha_action' = a
    /\ ha_arg' = d
    /\ ha_dirname' = d
    /\ ha_iter' = 0
    /\ ha_pc' = IF has_access_lookup(u, a) = "loop" THEN "loop" ELSE "ret"
    /\ ha_result' = IF has_access_lookup(u, a) = "loop" THEN "none"
                    ELSE has_access_lookup(u, a)
    /\ UNCHANGED <<all_dirs, user_perms>>

\* handle: the directory of normalize_path, which is the relative path for
\* a directory and its head for a file
HaCallHttp ==
    /\ ha_pc = "idle"
    /\ \E path \in RawPaths(MaxRaw) :
          /\ inside_base(os_path_abspath(os_path_join(basedir, path)),
                         basedir)
          /\ \E rel \in {normalize_path_rel(basedir, path)} :
             \E d \in {rel, os_path_split(rel)[1]} :
             \E u \in Users, a \in Access : HaEnter(u, a, d)

\* MyFilesystem.has_access: the path after strip_path.  The FTP handler
\* passes absolute normalized paths below the user's home directory, which
\* is basedir (lines 759-760); MyFilesystem.open passes the head of one
HaCallFtp ==
    /\ ha_pc = "idle"
    /\ \E raw \in RawPaths(MaxRaw) :
       \E name \in {os_path_abspath(os_path_join(basedir, raw))} :
          /\ inside_base(name, basedir)
          /\ \E d \in {strip_path(name), strip_path(os_path_split(name)[1])} :
             \E u \in Users, a \in Access : HaEnter(u, a, d)

(***************************************************************************)
(* Specifications: one per component, the others standing still            *)
(***************************************************************************)
InitAccess ==
    PolicyInit /\ HaIdle /\ FsFixed /\ NpIdle /\ AuIdle /\ SfFixed /\ HsIdle /\ RcIdle

NextAccess == (HaCall \/ HaLoop \/ HaReturn) /\ UNCHANGED <<npVars, auVars, sfVars, hsVars, rcVars>>

SpecAccess == InitAccess /\ [][NextAccess]_vars

InitPath ==
    /\ FsInit /\ NpIdle
    /\ NoPolicy
    /\ HaIdle /\ AuIdle /\ SfFixed /\ HsIdle /\ RcIdle

NextPath == (NpCall \/ NpReturn) /\ UNCHANGED <<haVars, auVars, sfVars, hsVars, rcVars>>

SpecPath == InitPath /\ [][NextPath]_vars

InitAuth ==
    /\ all_dirs = {}
    /\ \E c \in Secrets :
         user_perms = [u \in Users |->
                         mk_perms(IF u = UNAUTH THEN None ELSE c,
                                  [a \in Access |-> {}])]
    /\ AuIdle
    /\ HaIdle /\ FsFixed /\ NpIdle /\ SfFixed /\ HsIdle /\ RcIdle

NextAuth ==
    /\ GetUser \/ ValidateAuthentication \/ AuReturn
    /\ UNCHANGED <<haFrame, npVars, sfVars, hsVars, rcVars>>

SpecAuth == InitAuth /\ [][NextAuth]_vars

InitStream ==
    /\ SfInit
    /\ NoPolicy /\ HaIdle /\ FsFixed /\ NpIdle /\ AuIdle /\ HsIdle /\ RcIdle

NextStream ==
    /\ \/ SfCall
       \/ SfSendFile
       \/ SfNextChunk
       \/ SfReadError
       \/ SfDisconnect
       \/ SfReturn
    /\ UNCHANGED <<haVars, npVars, auVars, hsVars, rcVars>>

SpecStream == InitStream /\ [][NextStream]_vars

\* the server that iterates the response either asks for the next chunk or
\* closes the iterator, and a finished request returns
SpecStreamFair == SpecStream /\ WF_vars(NextStream)

InitServer ==
    /\ all_dirs = {<<>>, pD}
    /\ \E acts \in GrantSets : user_perms = ServerPolicy(acts)
    /\ basedir = pA
    /\ fs = ServerFs
    /\ HsIdle /\ RcIdle
    /\ HaIdle /\ NpIdle /\ AuIdle /\ SfFixed

NextServer ==
    /\ HttpRequest \/ FtpCommand \/ HsReturn
    /\ UNCHANGED <<haFrame, np_pc, np_path, np_result, auVars, sfVars, rcVars>>

SpecServer == InitServer /\ [][NextServer]_vars

InitRace ==
    /\ all_dirs = {<<>>, pD}
    /\ \E acts \in {{"write"}, Access} : user_perms = ServerPolicy(acts)
    /\ basedir = pA
    /\ fs = ServerFs
    /\ HsIdle /\ RcIdle
    /\ HaIdle /\ NpIdle /\ AuIdle /\ SfFixed

NextRace ==
    /\ \/ \E h \in Uploaders : UploadCheck(h)
       \/ \E h \in Uploaders : UploadSave(h)
       \/ FtpStorOpen
       \/ FtpStorWrite
    /\ UNCHANGED <<haFrame, np_pc, np_path, np_result, auVars, sfVars,
                   hsVars>>

SpecRace == InitRace /\ [][NextRace]_vars

\* every registered directory is granted to everyone for every action
InitLoop ==
    /\ \E regs \in SUBSET RegCandidates :
          /\ all_dirs = regs
          /\ user_perms =
                [u \in Users |-> mk_perms(None, [a \in Access |-> regs])]
    /\ HaIdle /\ FsFixed /\ NpIdle /\ AuIdle /\ SfFixed /\ HsIdle /\ RcIdle

NextLoop ==
    /\ HaCallHttp \/ HaCallFtp \/ HaLoop \/ HaReturn
    /\ UNCHANGED <<npVars, auVars, sfVars, hsVars, rcVars>>

\* the loop is sequential code: it takes its next step
SpecLoop ==
    /\ InitLoop /\ [][NextLoop]_vars
    /\ WF_vars(HaLoop /\ UNCHANGED <<npVars, auVars, sfVars, hsVars, rcVars>>)

(***************************************************************************)
(* Claims about has_access                                                 *)
(***************************************************************************)
\* the path segments of a normalized directory
Segments(d) == IF d = <<>> THEN <<>> ELSE str_split(d)

\* d and its ancestors, up to the empty path
SelfAndAncestors(d) ==
    {str_join(SubSeq(Segments(d), 1, k)) : k \in 0..Len(Segments(d))}

RegisteredAncestors(d) == SelfAndAncestors(d) \cap all_dirs

NearestRegistered(d) ==
    CHOOSE n \in RegisteredAncestors(d) :
        \A m \in RegisteredAncestors(d) : Len(m) <= Len(n)

HaKnown == ha_user \in Users /\ ha_action \in Access

\* C1: for a known principal and action, has_access returns exactly whether
\* the nearest registered directory among dirname and its ancestors is in
\* the principal's grant list for the action, and false when there is none.
C1_NearestRegisteredDecides ==
    (ha_pc = "ret" /\ HaKnown) =>
        ha_result =
            IF /\ RegisteredAncestors(ha_arg) # {}
               /\ NearestRegistered(ha_arg)
                      \in user_perms[ha_user].acts[ha_action]
            THEN "true" ELSE "false"

\* C1 witness: the nearest registered ancestor denies although a farther
\* ancestor is in the grant list, and the loop has gone upward.
C1_Witness ==
    /\ ha_pc = "ret" /\ HaKnown
    /\ ha_iter >= 1
    /\ ha_result = "false"
    /\ RegisteredAncestors(ha_arg) # {}
    /\ \E m \in RegisteredAncestors(ha_arg) :
          /\ m # NearestRegistered(ha_arg)
          /\ m \in user_perms[ha_user].acts[ha_action]

HaUnknown == ha_user \notin Users \/ ha_action \notin Access

\* C2 as stated: an unknown principal or action makes has_access return
\* the value false, with no error raised.
C2_ReturnsFalseNoError ==
    (ha_pc = "ret" /\ HaUnknown) => ha_result = "false"

\* C2 amended: an unknown principal or action makes has_access raise
\* AccessError(403, "forbidden") before the loop; it never returns true.
C2_RaisesForbidden ==
    (ha_pc = "ret" /\ HaUnknown) => (ha_result = "AccessError" /\ ha_iter = 0)

C2_Witness ==
    /\ ha_pc = "ret"
    /\ ha_user \in Users /\ ha_action \notin Access
    /\ ha_arg \in all_dirs
    /\ ha_result = "AccessError"

(***************************************************************************)
(* Claims about normalize_path                                             *)
(***************************************************************************)
IsPrefixSeq(a, b) == Len(a) <= Len(b) /\ SubSeq(b, 1, Len(a)) = a

\* p names base or something below it, segment by segment, and has no
\* segment left to resolve
SegInside(p, base) ==
    /\ startswith(p, <<Sep>>)
    /\ IsPrefixSeq(path_comps(base), path_comps(p))
    /\ \A i \in 1..Len(path_comps(p)) :
          path_comps(p)[i] \notin {<<".">>, <<".", ".">>}

NpJoined == os_path_abspath(os_path_join(basedir, np_path))

Forbidden == AccessError(403, "forbidden")

C4_NoSymlinkEscape ==
    (np_pc = "ret" /\ np_result.kind = "ok") =>
        /\ SegInside(os_stat(fs, np_result.name).real, basedir)
        /\ os_stat(fs, np_result.name).kind \in {"dir", "reg"}

(***************************************************************************)
(* Claims about the credential check                                       *)
(***************************************************************************)
\* C5: the credential check never accepts the reserved principal, whatever
\* secret is supplied, an absent one included: get_user takes the branch
\* that issues no cred, and validate_authentication raises.
C5_ReservedNeverAccepted ==
    (au_pc = "ret" /\ au_user = UNAUTH) =>
        /\ ~creds_equal(au_user, au_password)
        /\ au_op = "get_user" => au_result.cred = <<>>
        /\ au_op = "validate_authentication" =>
              au_result.kind = "AuthenticationFailed"

(***************************************************************************)
(* Claims about streamfile                                                 *)
(***************************************************************************)
\* "bytes=b1-b2", or "bytes=b1-" when b2 is absent (-1)
RangeHeader(b1, b2) ==
    sBytesEq \o str_of_nat(b1) \o <<"-">> \o
    (IF b2 = -1 THEN <<>> ELSE str_of_nat(b2))

\* the ranges of the claim: 0 <= b1 < size, b2 absent or b2 >= b1
RangeCases(size) ==
    IF size = BigSize THEN {<<0, 99>>, <<900, -1>>}
    ELSE {c \in (0..(size - 1)) \X (-1..(size + 1)) :
              c[2] = -1 \/ c[2] >= c[1]}

ClaimedLength(size, b1, b2) ==
    IF b2 = -1 THEN size - b1
    ELSE IF b2 - b1 + 1 <= size - b1 THEN b2 - b1 + 1 ELSE size - b1

sRange0to99of1000 ==
    <<"b", "y", "t", "e", "s", " ", "0", "-", "9", "9", "/",
      "1", "0", "0", "0">>

sRange900to999of1000 ==
    <<"b", "y", "t", "e", "s", " ", "9", "0", "0", "-", "9", "9", "9", "/",
      "1", "0", "0", "0">>

\* C6: for a Range header b1-b2 with 0 <= b1 < S and b2 absent or >= b1 the
\* response is 206 with length min(b2 - b1 + 1, S - b1), the header
\* Content-Range: bytes b1-(b1+length-1)/S, and the chunks yielded are in
\* order the file bytes from b1 on, exactly length of them once exhausted.
C6_RangeServedExactly ==
    /\ \A c \in RangeCases(sf_size) :
          (sf_pc # "idle" /\ sf_header = RangeHeader(c[1], c[2])) =>
              LET length == ClaimedLength(sf_size, c[1], c[2])
              IN  /\ sf_resp.kind = "Response" /\ sf_resp.status = 206
                  /\ sf_resp.length = length
                  /\ sf_resp.content_range =
                         <<"b", "y", "t", "e", "s", " ">> \o
                         str_of_nat(c[1]) \o <<"-">> \o
                         str_of_nat(c[1] + length - 1) \o <<"/">> \o
                         str_of_nat(sf_size)
                  /\ Len(sf_body) <= length
                  /\ sf_body = [i \in 1..Len(sf_body) |->
                                   file_byte(c[1] + i - 1)]
                  /\ sf_end = "exhausted" => Len(sf_body) = length
    /\ (sf_pc # "idle" /\ sf_size = 1000) =>
          /\ sf_header = sBytesEq \o <<"0", "-", "9", "9">> =>
                /\ sf_resp.content_range = sRange0to99of1000
                /\ sf_end = "exhausted" => Len(sf_body) = 100
          /\ sf_header = sBytesEq \o <<"9", "0", "0", "-">> =>
                /\ sf_resp.content_range = sRange900to999of1000
                /\ sf_end = "exhausted" => Len(sf_body) = 100

\* C6 witness: 'bytes=900-' on the 1000-byte file has been streamed to the
\* end in more than one chunk.
C6_Witness ==
    /\ sf_size = 1000
    /\ sf_header = sBytesEq \o <<"9", "0", "0", "-">>
    /\ sf_end = "exhausted"
    /\ chunksize < Len(sf_body)
    /\ sf_body = [i \in 1..100 |-> file_byte(899 + i)]

SfMalformed ==
    /\ sf_header # None /\ sf_header # <<>>
    /\ ~\E i \in 1..Len(sf_header) :
          /\ IsDigit(sf_header[i])
          /\ i < Len(sf_header) /\ sf_header[i + 1] = "-"

\* C7: a Range header that does not match start-end is not rejected and
\* does not fail the request: the file is served from offset 0 to its end.
C7_MalformedRangeFallsBack ==
    (sf_pc # "idle" /\ SfMalformed) =>
        /\ sf_resp.kind = "Response"
        /\ redirect_on_exception(sf_resp).status \in {200, 206}
        /\ sf_resp.start = 0 /\ sf_resp.length = sf_size
        /\ sf_end = "exhausted" => sf_body = file_read(sf_size, 0, sf_size)

(***************************************************************************)
(* Claims about the operations of the server                               *)
(***************************************************************************)
IsRegular(f, name) ==
    os_stat(f, name).err = "ok" /\ os_stat(f, name).kind = "reg"

\* the answered request is an HTTP upload into a directory the caller may
\* upload to, and the sanitized target is a file there
HttpUploadOnExisting ==
    /\ hs_pc = "ret" /\ hs_proto = "http" /\ hs_req.action = aUpload
    /\ LET gu == get_user(hs_req.creds)
           np == normalize_path(hs_fs0, basedir, hs_req.path)
       IN  /\ gu.kind = "ok" /\ np.kind = "ok" /\ np.fname = None
           /\ has_access(gu.user, np.dirname, "write") = "true"
           /\ get_valid_filename(os_path_split(hs_req.name)[2]) # <<>>
           /\ IsRegular(hs_fs0, upload_fullname(np.dirname,
                                                upload_fname(hs_req.name)))

\* the answered command is an FTP open in write mode by a user who may
\* upload to the directory, and the target is a file there
FtpStoreOnExisting ==
    /\ hs_pc = "ret" /\ hs_proto = "ftp" /\ hs_req.op = "open"
    /\ hs_req.mode = <<"w", "b">>
    /\ MyFilesystem_has_access(Alice, os_path_split(hs_req.path)[1],
                               {"write"})
    /\ IsRegular(hs_fs0, hs_req.path)

\* C8: an upload (HTTP upload_file or FTP open in write mode) whose target
\* already exists as a file never overwrites it: the filesystem is as it
\* was and the operation is rejected, over HTTP with 403 "duplicate"
C8_UploadNeverOverwrites ==
    /\ HttpUploadOnExisting =>
          /\ fs = hs_fs0
          /\ hs_resp.status = 403 /\ hs_resp.body = "duplicate"
    /\ FtpStoreOnExisting =>
          /\ fs = hs_fs0
          /\ hs_resp.kind # "ok"

Logged(i, p, step) == i \in 1..Len(rc_log) /\ rc_log[i] = <<p, step>>

RaceTarget(p) == fs_key(upload_fullname(pD, upload_fname(rc_name[p])))

\* C9: the duplicate check and the write of an upload are two steps: an
\* upload that has passed the check writes its data and reports success
\* whatever has happened to the target since, so two uploads of one absent
\* name can both write and both succeed, the later replacing the earlier
C9_CheckedUploadWrites ==
    [][\A h \in Uploaders :
          (rc_pc[h] = "checked" /\ rc_pc'[h] = "done") =>
             /\ rc_resp'[h].status = 302 /\ rc_resp'[h].note = "saved"
             /\ fs'[RaceTarget(h)].data = RaceData(h)]_vars

\* an HTTP upload passed its check while n was absent, the FTP upload of n
\* then wrote and finished, and the HTTP upload wrote over it; both
\* succeeded
C9_Witness ==
    \E h \in Uploaders : \E i, j, k \in 1..Len(rc_log) :
       /\ i < j /\ j < k
       /\ Logged(i, h, "check") /\ Logged(j, "ftp", "write")
       /\ Logged(k, h, "save")
       /\ \A m \in 1..i : rc_log[m][1] = h
       /\ rc_name[h] = sN /\ rc_name["ftp"] = sN
       /\ rc_resp[h].note = "saved" /\ rc_resp["ftp"] = Returned
       /\ fs[RaceTarget(h)].data = RaceData(h)

\* why handle denies the HTTP request req on filesystem f: "path" (outside
\* the root, does not exist, stat failure, not a file or directory),
\* "listing" and "access" (has_access says no), "duplicate" (the upload
\* target exists), "os" (delete or mkdir failed), or "none"
DenialCause(f, req) ==
    LET gu == get_user(req.creds)
        np == normalize_path(f, basedir, req.path)
        may(a) == has_access(gu.user, np.dirname, a) = "true"
        isdir == np.fname = None
        target == os_path_join(basedir, os_path_join(np.dirname, np.fname))
        newdir == os_path_join(basedir,
                      os_path_join(np.dirname, get_valid_filename(req.name)))
    IN  IF gu.kind # "ok" THEN "none"
        ELSE IF np.kind # "ok" THEN "path"
        ELSE IF isdir /\ req.action \in {None, aList}
        THEN IF may("list") \/ may("write") \/ may("mkdir") THEN "none"
             ELSE "listing"
        ELSE IF isdir /\ req.action = aUpload
        THEN IF ~may("write") THEN "access"
             ELSE IF /\ get_valid_filename(os_path_split(req.name)[2]) # <<>>
                     /\ os_access(f, upload_fullname(np.dirname,
                                                    upload_fname(req.name)))
             THEN "duplicate"
             ELSE "none"
        ELSE IF ~isdir /\ req.action = aDelete
        THEN IF ~may("delete") THEN "access"
             ELSE IF os_remove(f, target).err # "ok" THEN "os" ELSE "none"
        ELSE IF isdir /\ req.action = aMkdir
        THEN IF ~may("mkdir") THEN "access"
             ELSE IF os_makedirs(f, newdir).err # "ok" THEN "os" ELSE "none"
        ELSE IF ~isdir /\ req.action = None
        THEN IF ~may("read") THEN "access" ELSE "none"
        ELSE "none"

HsCause ==
    IF hs_pc = "ret" /\ hs_proto = "http" THEN DenialCause(hs_fs0, hs_req)
    ELSE "none"

\* C10 as stated: requests denied for different reasons get the same status
\* and body; a path outside the root is answered 403 "forbidden", so every
\* denial is
C10_DeniedIndistinguishable ==
    HsCause # "none" => hs_resp.status = 403 /\ hs_resp.body = "forbidden"

\* the answered HTTP request presented credentials, and they are those of a
\* configured user
PresentedValid ==
    /\ hs_pc = "ret" /\ hs_proto = "http" /\ hs_req.creds # NoRequest
    /\ get_user(hs_req.creds).kind = "ok"
    /\ get_user(hs_req.creds).user # UNAUTH

\* C11: 401 with a challenge is answered only to a listing request that
\* presented no credentials at all; a request with valid credentials of a
\* known user that do not suffice for the directory is answered 403
C11_UnauthorizedOnlyWithoutCredentials ==
    (hs_pc = "ret" /\ hs_proto = "http") =>
       /\ hs_resp.status = 401 =>
             /\ hs_req.creds = NoRequest
             /\ hs_req.action \in {None, aList}
       /\ (PresentedValid /\ HsCause \in {"listing", "access"}) =>
             hs_resp.status = 403

\* the answered request is a delete or mkdir that has_access let through
\* and whose filesystem call failed
HttpOsFailure == HsCause = "os"

FtpOsFailure ==
    /\ hs_pc = "ret" /\ hs_proto = "ftp"
    /\ \/ /\ hs_req.op = "remove"
          /\ MyFilesystem_has_access(Alice, hs_req.path, {"delete"})
          /\ os_remove(hs_fs0, hs_req.path).err # "ok"
       \/ /\ hs_req.op = "mkdir"
          /\ MyFilesystem_has_access(Alice, hs_req.path, {"mkdir"})
          /\ os_makedirs(hs_fs0, hs_req.path).err # "ok"

\* C12: every filesystem failure of delete and mkdir is answered with the
\* one generic "permission denied", over HTTP (delete_file, make_dir) and
\* over FTP (MyFilesystem.remove, MyFilesystem.mkdir) alike, so that the
\* caller never sees which failure it was
C12_FailuresCollapsed ==
    /\ HttpOsFailure =>
          /\ hs_resp.status = 403 /\ hs_resp.body = "permission denied"
          /\ fs = hs_fs0
    /\ FtpOsFailure =>
          /\ hs_resp.message = "permission denied"
          /\ fs = hs_fs0

\* C13: the handle send_chunks_iter opens is eventually closed in every
\* run: once the stream has ended, by exhaustion, by the consumer closing
\* the iterator mid-stream or by a read error, no handle is open, and no
\* further chunk is produced
C13_HandleEventuallyClosed ==
    /\ [](sf_end # "none" => sf_handle # "open")
    /\ (sf_handle = "open") ~> (sf_handle = "closed")
    /\ [][sf_end # "none" => (sf_end' = "none" \/ sf_body' = sf_body)]_vars

\* the consumer went away after a first chunk of several, and the handle
\* is closed
C13_Witness ==
    /\ sf_end = "closed" /\ sf_handle = "closed"
    /\ sf_body # <<>> /\ sf_offset < sf_length

\* the segments of a directory string, empty ones left out
PathSegments(d) == SelectSeq(Segments(d), LAMBDA x : x # <<>>)

\* C14: the upward search of has_access ends for every policy, known user,
\* action and directory string either adapter hands it: an iteration that
\* does not return strictly shortens the string, there are no more such
\* iterations than the string has segments, and the call returns
C14_LoopTerminates ==
    /\ [][(ha_pc = "loop" /\ ha_pc' = "loop") =>
             Len(ha_dirname') < Len(ha_dirname)]_vars
    /\ [](ha_iter <= Len(PathSegments(ha_arg)))
    /\ [](ha_pc = "loop" =>
             /\ ha_dirname = <<>> \/ Head(ha_dirname) # Sep
             /\ ha_dirname # <<Sep>>)
    /\ (ha_pc = "loop") ~> (ha_pc = "ret")

\* the search went up one step per segment of a path and found nothing
\* registered
C14_Witness ==
    /\ ha_pc = "ret" /\ ha_result = "false"
    /\ ha_arg = <<"b", Sep, "a">> /\ ha_iter = 2 /\ ha_dirname = <<>>

\* the principal of the answered request: the user get_user found for an
\* HTTP request, the logged-in user of the FTP session
HsPrincipal ==
    IF hs_proto = "http" THEN get_user(hs_req.creds).user ELSE Alice

\* the answered request performed an effect on a directory
EffectPerformed == hs_pc = "ret" /\ hs_effect.kind # "none"

\* has_access says true for the principal, the directory of the effect and
\* the action that matches its kind
EffectGranted ==
    has_access(HsPrincipal, hs_effect.dir, hs_effect.kind) = "true"

\* the answered HTTP request resolved to a target whose kind, with the
\* request's action, matches no branch of handle
HttpUnmatched ==
    LET unmatched(np) ==
            /\ np.kind = "ok"
            /\ ~(np.fname = None
                   /\ hs_req.action \in {None, aList, aUpload, aMkdir})
            /\ ~(np.fname # None /\ np.fname # <<>>
                   /\ hs_req.action \in {None, aDelete})
    IN  /\ hs_pc = "ret" /\ hs_proto = "http"
        /\ get_user(hs_req.creds).kind = "ok"
        /\ unmatched(normalize_path(hs_fs0, basedir, hs_req.path))

\* C15: over HTTP and FTP alike, an effect of kind list, read, write, delete
\* or mkdir on a directory is performed only when has_access says true for
\* the requesting principal, that directory and the matching action (a
\* grant for another action does not do), and a request whose target kind
\* and action match no operation performs no effect
C15_EffectOnlyAfterMatchingGrant ==
    /\ EffectPerformed => EffectGranted
    /\ HttpUnmatched => hs_effect = NoEffect /\ fs = hs_fs0

\* kinds of violation of C15, by adapter and effect
C15_HttpEffects ==
    (EffectPerformed /\ hs_proto = "http" /\ hs_effect.kind # "list")
       => EffectGranted

C15_HttpListing ==
    (EffectPerformed /\ hs_proto = "http" /\ hs_effect.kind = "list")
       => EffectGranted

C15_FtpEffects ==
    (EffectPerformed /\ hs_proto = "ftp" /\ hs_req.op \notin {"rmdir", "open"})
       => EffectGranted

C15_FtpRmdir ==
    (EffectPerformed /\ hs_proto = "ftp" /\ hs_req.op = "rmdir")
       => EffectGranted

C15_FtpOpen ==
    (EffectPerformed /\ hs_proto = "ftp" /\ hs_req.op = "open")
       => EffectGranted

C15_Unmatched == HttpUnmatched => hs_effect = NoEffect /\ fs = hs_fs0

====
